---- MODULE Spec2Model ----
(***************************************************************************)
(* A model of sql_exporter's query engine (query.go) and connection        *)
(* helpers (sql.go).                                                       *)
(*                                                                         *)
(* Strings that the code compares, searches or parses are sequences of     *)
(* one-character strings; column names, which the code only uses as map    *)
(* keys, are TLA+ strings.  float64 values are integers, time.Time values  *)
(* are whole seconds of the first minute of the epoch.                     *)
(***************************************************************************)
EXTENDS Integers, Sequences, FiniteSets, TLC

\* ------------------------------------------------------------------ bounds
\* Rows a cursor yields at most.
MaxRows == 2
\* Collect invocations on the one Query, over the whole run.
MaxCollects == 2
\* PingDB invocations on an opened handle.
MaxPings == 2
\* The wall-clock second at which rows are transformed (time.Now()).
Clock == 40

\* ------------------------------------------------------------- column types
columnTypeKey == 1
columnTypeValue == 2
columnTypeTime == 3

\* ------------------------------------------------------------------ strings
Digit(d) == CASE d = 0 -> "0" [] d = 1 -> "1" [] d = 2 -> "2" [] d = 3 -> "3"
              [] d = 4 -> "4" [] d = 5 -> "5" [] d = 6 -> "6" [] d = 7 -> "7"
              [] d = 8 -> "8" [] d = 9 -> "9"

RECURSIVE NatText(_)
NatText(n) == IF n < 10 THEN <<Digit(n)>> ELSE NatText(n \div 10) \o <<Digit(n % 10)>>

\* fmt.Sprintf("%v", f) of a float64 holding a whole number.
FloatText(f) == IF f < 0 THEN <<"-">> \o NatText(0 - f) ELSE NatText(f)

\* strings.Contains(s, sub)
Contains(s, sub) ==
    \E i \in 1..(Len(s) - Len(sub) + 1) : SubSeq(s, i, i + Len(sub) - 1) = sub

\* The layout "2006-01-02 15:04:05.000 UTC", the default of calculateLag and
\* the layout applyRowFilter prints a time with.
DefaultLayout == "2006-01-02 15:04:05.000 UTC"
\* A second layout a lag calculation may configure.
ClockLayout == "15:04:05"
\* time.RFC3339Nano, the layout database/sql stores a time into a string with.
RFC3339Nano == "2006-01-02T15:04:05.999999999Z07:00"

TwoDigits(n) == <<Digit(n \div 10), Digit(n % 10)>>

\* time.Time.Format(layout) of the instant t seconds after the epoch, t < 60.
FormatTime(layout, t) ==
    CASE layout = ClockLayout -> <<"0","0",":","0","0",":">> \o TwoDigits(t)
      [] layout = RFC3339Nano ->
            <<"1","9","7","0","-","0","1","-","0","1","T","0","0",":","0","0",":">>
            \o TwoDigits(t) \o <<"Z">>
      [] OTHER ->
            <<"1","9","7","0","-","0","1","-","0","1"," ","0","0",":","0","0",":">>
            \o TwoDigits(t) \o <<".","0","0","0"," ","U","T","C">>

Instants == 0..59

\* time.Parse(layout, s): the instant s denotes in that layout, or an error.
\* A ClockLayout string carries no date: Go parses it into year 0, which is not
\* an instant of the model, so only the seconds are kept and the date is lost.
ParseTime(layout, s) ==
    IF \E t \in Instants : FormatTime(layout, t) = s
    THEN [ok |-> TRUE, t |-> CHOOSE t \in Instants : FormatTime(layout, t) = s]
    ELSE [ok |-> FALSE, t |-> 0]

\* ------------------------------------------------------------------- values
\* sql.NullString, sql.NullFloat64, sql.NullTime as one record shape.
NullString(valid, s) ==
    [t |-> "NullString", Valid |-> valid, String |-> s, Float64 |-> 0, Time |-> 0]
NullFloat64(valid, f) ==
    [t |-> "NullFloat64", Valid |-> valid, String |-> <<>>, Float64 |-> f, Time |-> 0]
NullTime(valid, tm) ==
    [t |-> "NullTime", Valid |-> valid, String |-> <<>>, Float64 |-> 0, Time |-> tm]

\* The empty map.
EmptyMap == [c \in {} |-> 0]

\* m with key k set to v (Go: m[k] = v).
MapSet(m, k, v) == [c \in (DOMAIN m) \cup {k} |-> IF c = k THEN v ELSE m[c]]

\* A sequence as the set of its elements.
Range(s) == {s[i] : i \in DOMAIN s}

\* ------------------------------------------------------------ configuration
\* config.LagCalculation, config.RowFilter and config.MetricConfig, the fields
\* query.go reads.
LagCalculation(src, out, layout) ==
    [SourceColumn |-> src, OutputColumn |-> out, TimestampFormat |-> layout]
RowFilter(col, op, val, vals) ==
    [Column |-> col, Operator |-> op, Value |-> val, Values |-> vals]
MetricConfig(lags, filters, keys, vals, ts, colFilters) ==
    [LagCalculations |-> lags, RowFilters |-> filters, KeyLabels |-> keys,
     Values |-> vals, TimestampValue |-> ts, ColumnFilters |-> colFilters]

\* --------------------------------------------------------------- NewQuery
\* setColumnType without the conflict: the role registered first stays.
setColumnTypeFirstWins(columnName, ctype, columnTypes) ==
    IF columnName \in DOMAIN columnTypes
    THEN [ok |-> TRUE, column |-> "", types |-> columnTypes]
    ELSE [ok |-> TRUE, column |-> "", types |-> MapSet(columnTypes, columnName, ctype)]

\* setColumnType: the map with the column registered, or a conflict.
setColumnType(columnName, ctype, columnTypes) ==
    IF columnName \in DOMAIN columnTypes
    THEN IF columnTypes[columnName] # ctype
         THEN [ok |-> FALSE, column |-> columnName, types |-> columnTypes]
         ELSE [ok |-> TRUE, column |-> "", types |-> columnTypes]
    ELSE [ok |-> TRUE, column |-> "", types |-> MapSet(columnTypes, columnName, ctype)]

\* The setColumnType calls NewQuery makes for one metric family, in order.
RECURSIVE ValueRegs(_, _)
ValueRegs(vals, transformedColumns) ==
    IF vals = <<>> THEN <<>>
    ELSE (IF Head(vals) \in transformedColumns THEN <<>>
          ELSE << <<Head(vals), columnTypeValue>> >>)
         \o ValueRegs(Tail(vals), transformedColumns)

FamilyRegs(mc) ==
    LET transformedColumns ==
            {mc.LagCalculations[i].OutputColumn : i \in DOMAIN mc.LagCalculations}
    IN  [i \in DOMAIN mc.LagCalculations |->
            <<mc.LagCalculations[i].SourceColumn, columnTypeKey>>]
        \o [i \in DOMAIN mc.RowFilters |-> <<mc.RowFilters[i].Column, columnTypeKey>>]
        \o [i \in DOMAIN mc.KeyLabels |-> <<mc.KeyLabels[i], columnTypeKey>>]
        \o ValueRegs(mc.Values, transformedColumns)
        \o (IF mc.TimestampValue # "" THEN << <<mc.TimestampValue, columnTypeTime>> >>
            ELSE <<>>)

RECURSIVE AllRegs(_)
AllRegs(metricFamilies) ==
    IF metricFamilies = <<>> THEN <<>>
    ELSE FamilyRegs(Head(metricFamilies)) \o AllRegs(Tail(metricFamilies))

RECURSIVE RegisterAll(_, _)
RegisterAll(regs, columnTypes) ==
    IF regs = <<>> THEN [ok |-> TRUE, column |-> "", types |-> columnTypes]
    ELSE LET r == setColumnType(Head(regs)[1], Head(regs)[2], columnTypes)
         IN  IF r.ok THEN RegisterAll(Tail(regs), r.types) ELSE r

\* NewQuery: ok and the column role map, or the conflicting column.
NewQuery(metricFamilies) == RegisterAll(AllRegs(metricFamilies), EmptyMap)

\* ---------------------------------------------------------- the row scanner
\* What a driver hands to Scan for one column: NULL, text, a number or a time.
DbNull == [k |-> "null", s |-> <<>>, n |-> 0]
DbText(s) == [k |-> "text", s |-> s, n |-> 0]
DbNum(n) == [k |-> "num", s |-> <<>>, n |-> n]
DbTime(tm) == [k |-> "time", s |-> <<>>, n |-> tm]

\* q.columnTypes[column], 0 for a column the map does not hold.
TypeOf(columnTypes, column) ==
    IF column \in DOMAIN columnTypes THEN columnTypes[column] ELSE 0

\* scanDest counting the returned columns it has a role for, repeats included,
\* in place of the distinct names.
scanDestCountingRepeats(columnTypes, columns, columnsErr) ==
    LET have == {i \in DOMAIN columns : TypeOf(columnTypes, columns[i]) # 0}
        missing == {c \in DOMAIN columnTypes : c \notin Range(columns)}
    IN  IF columnsErr
        THEN [ok |-> FALSE, err |-> "columns", missing |-> {}, dest |-> <<>>]
        ELSE IF Cardinality(have) # Cardinality(DOMAIN columnTypes)
        THEN [ok |-> FALSE, err |-> "missing", missing |-> missing, dest |-> <<>>]
        ELSE [ok |-> TRUE, err |-> "", missing |-> {},
              dest |-> [i \in DOMAIN columns |-> TypeOf(columnTypes, columns[i])]]

\* scanDest: one destination kind per returned column, or the missing columns.
\* columnsErr: rows.Columns() failed.
scanDest(columnTypes, columns, columnsErr) ==
    LET have == {c \in Range(columns) : TypeOf(columnTypes, c) # 0}
        missing == {c \in DOMAIN columnTypes : c \notin have}
    IN  IF columnsErr
        THEN [ok |-> FALSE, err |-> "columns", missing |-> {}, dest |-> <<>>]
        ELSE IF Cardinality(have) # Cardinality(DOMAIN columnTypes)
        THEN [ok |-> FALSE, err |-> "missing", missing |-> missing, dest |-> <<>>]
        ELSE [ok |-> TRUE, err |-> "", missing |-> {},
              dest |-> [i \in DOMAIN columns |-> TypeOf(columnTypes, columns[i])]]

\* Whether text is a decimal number Scan can store in a float64.
IsNumberText(s) == \E n \in 0..99 : NatText(n) = s
NumberOf(s) == CHOOSE n \in 0..99 : NatText(n) = s

\* rows.Scan of one driver value into a destination of kind ctype: the value
\* stored, or a conversion error.  A NULL clears Valid and leaves the zero value.
ScanValue(ctype, v) ==
    CASE ctype = columnTypeKey ->
            [ok |-> TRUE,
             val |-> (CASE v.k = "null" -> NullString(FALSE, <<>>)
                        [] v.k = "text" -> NullString(TRUE, v.s)
                        [] v.k = "num" -> NullString(TRUE, FloatText(v.n))
                        [] v.k = "time" -> NullString(TRUE, FormatTime(RFC3339Nano, v.n)))]
      [] ctype = columnTypeValue ->
            (CASE v.k = "null" -> [ok |-> TRUE, val |-> NullFloat64(FALSE, 0)]
               [] v.k = "num" -> [ok |-> TRUE, val |-> NullFloat64(TRUE, v.n)]
               [] v.k = "text" ->
                     IF IsNumberText(v.s)
                     THEN [ok |-> TRUE, val |-> NullFloat64(TRUE, NumberOf(v.s))]
                     ELSE [ok |-> FALSE, val |-> NullFloat64(FALSE, 0)]
               [] v.k = "time" -> [ok |-> FALSE, val |-> NullFloat64(FALSE, 0)])
      [] ctype = columnTypeTime ->
            (CASE v.k = "null" -> [ok |-> TRUE, val |-> NullTime(FALSE, 0)]
               [] v.k = "time" -> [ok |-> TRUE, val |-> NullTime(TRUE, v.n)]
               [] OTHER -> [ok |-> FALSE, val |-> NullTime(FALSE, 0)])
      [] OTHER -> [ok |-> TRUE, val |-> NullString(FALSE, <<>>)]

\* scanRow leaving a NULL column out of the Row.
scanRowSkippingNulls(columnTypes, columns, raw, ioErr) ==
    LET scanned == [i \in DOMAIN columns |->
                        ScanValue(TypeOf(columnTypes, columns[i]), raw[columns[i]])]
        wanted == {i \in DOMAIN columns :
                      TypeOf(columnTypes, columns[i]) # 0 /\ scanned[i].val.Valid}
        last(c) == CHOOSE i \in wanted :
                      columns[i] = c /\ \A j \in wanted : columns[j] = c => j <= i
    IN  IF ioErr \/ \E i \in DOMAIN columns : ~scanned[i].ok
        THEN [ok |-> FALSE, row |-> EmptyMap]
        ELSE [ok |-> TRUE,
              row |-> [c \in {columns[i] : i \in wanted} |-> scanned[last(c)].val]]

\* scanRow: the Row (column name -> value) of one cursor row, or an error.
\* raw: the driver's values by column name; ioErr: rows.Columns() or the
\* driver failed under rows.Scan.
scanRow(columnTypes, columns, raw, ioErr) ==
    LET scanned == [i \in DOMAIN columns |->
                        ScanValue(TypeOf(columnTypes, columns[i]), raw[columns[i]])]
        wanted == {i \in DOMAIN columns : TypeOf(columnTypes, columns[i]) # 0}
        \* result[column] = ... in column order: the last occurrence of a name wins
        last(c) == CHOOSE i \in wanted :
                      columns[i] = c /\ \A j \in wanted : columns[j] = c => j <= i
    IN  IF ioErr \/ \E i \in DOMAIN columns : ~scanned[i].ok
        THEN [ok |-> FALSE, row |-> EmptyMap]
        ELSE [ok |-> TRUE,
              row |-> [c \in {columns[i] : i \in wanted} |-> scanned[last(c)].val]]

\* ---------------------------------------------------------- the row pipeline
\* applyRowFilter with a not_in that matches as soon as one value differs.
applyRowFilterNotInAny(row, filter) ==
    IF filter.Column \notin DOMAIN row THEN FALSE
    ELSE LET value == row[filter.Column]
             valueStr == CASE value.t = "NullString" -> value.String
                           [] value.t = "NullFloat64" -> FloatText(value.Float64)
                           [] value.t = "NullTime" -> FormatTime(DefaultLayout, value.Time)
         IN  IF ~value.Valid THEN FALSE
             ELSE CASE filter.Operator = "equals" -> (valueStr = filter.Value)
                    [] filter.Operator = "not_equals" -> (valueStr # filter.Value)
                    [] filter.Operator = "in" ->
                          (\E i \in DOMAIN filter.Values : valueStr = filter.Values[i])
                    [] filter.Operator = "not_in" ->
                          (\E i \in DOMAIN filter.Values : valueStr # filter.Values[i])
                    [] filter.Operator = "contains" -> Contains(valueStr, filter.Value)
                    [] OTHER -> TRUE

\* applyRowFilter comparing a NULL string as the empty string.
applyRowFilterNullAsEmpty(row, filter) ==
    IF filter.Column \notin DOMAIN row THEN FALSE
    ELSE LET value == row[filter.Column]
             valueStr == CASE value.t = "NullString" -> value.String
                           [] value.t = "NullFloat64" -> FloatText(value.Float64)
                           [] value.t = "NullTime" -> FormatTime(DefaultLayout, value.Time)
         IN  IF ~value.Valid /\ value.t # "NullString" THEN FALSE
             ELSE CASE filter.Operator = "equals" -> (valueStr = filter.Value)
                    [] filter.Operator = "not_equals" -> (valueStr # filter.Value)
                    [] filter.Operator = "in" ->
                          (\E i \in DOMAIN filter.Values : valueStr = filter.Values[i])
                    [] filter.Operator = "not_in" ->
                          (~\E i \in DOMAIN filter.Values : valueStr = filter.Values[i])
                    [] filter.Operator = "contains" -> Contains(valueStr, filter.Value)
                    [] OTHER -> TRUE

\* applyRowFilter with an unknown operator that matches nothing.
applyRowFilterFailClosed(row, filter) ==
    IF filter.Column \notin DOMAIN row THEN FALSE
    ELSE LET value == row[filter.Column]
             valueStr == CASE value.t = "NullString" -> value.String
                           [] value.t = "NullFloat64" -> FloatText(value.Float64)
                           [] value.t = "NullTime" -> FormatTime(DefaultLayout, value.Time)
         IN  IF ~value.Valid THEN FALSE
             ELSE CASE filter.Operator = "equals" -> (valueStr = filter.Value)
                    [] filter.Operator = "not_equals" -> (valueStr # filter.Value)
                    [] filter.Operator = "in" ->
                          (\E i \in DOMAIN filter.Values : valueStr = filter.Values[i])
                    [] filter.Operator = "not_in" ->
                          (~\E i \in DOMAIN filter.Values : valueStr = filter.Values[i])
                    [] filter.Operator = "contains" -> Contains(valueStr, filter.Value)
                    [] OTHER -> FALSE

\* applyRowFilter
applyRowFilter(row, filter) ==
    IF filter.Column \notin DOMAIN row THEN FALSE
    ELSE LET value == row[filter.Column]
             valueStr == CASE value.t = "NullString" -> value.String
                           [] value.t = "NullFloat64" -> FloatText(value.Float64)
                           [] value.t = "NullTime" -> FormatTime(DefaultLayout, value.Time)
         IN  IF ~value.Valid THEN FALSE
             ELSE CASE filter.Operator = "equals" -> (valueStr = filter.Value)
                    [] filter.Operator = "not_equals" -> (valueStr # filter.Value)
                    [] filter.Operator = "in" ->
                          (\E i \in DOMAIN filter.Values : valueStr = filter.Values[i])
                    [] filter.Operator = "not_in" ->
                          (~\E i \in DOMAIN filter.Values : valueStr = filter.Values[i])
                    [] filter.Operator = "contains" -> Contains(valueStr, filter.Value)
                    [] OTHER -> TRUE

\* shouldIncludeRow letting a row through that matches one of the filters.
shouldIncludeRowAny(row, metric) ==
    \/ metric.RowFilters = <<>>
    \/ \E i \in DOMAIN metric.RowFilters : applyRowFilter(row, metric.RowFilters[i])

\* shouldIncludeRow
shouldIncludeRow(row, metric) ==
    \A i \in DOMAIN metric.RowFilters : applyRowFilter(row, metric.RowFilters[i])

\* calculateLag, in whole seconds; now is time.Now().
calculateLag(timestampValue, format, now) ==
    CASE timestampValue.t = "NullTime" ->
            (IF ~timestampValue.Valid THEN 0 ELSE now - timestampValue.Time)
      [] timestampValue.t = "NullString" ->
            (IF ~timestampValue.Valid \/ timestampValue.String = <<>> THEN 0
             ELSE LET layout == IF format = "" THEN DefaultLayout ELSE format
                      parsed == ParseTime(layout, timestampValue.String)
                  IN  IF parsed.ok THEN now - parsed.t ELSE 0)
      [] OTHER ->
            \* a NullFloat64 prints as "{f valid}", which no layout parses
            0

\* The lag-calculation loop with Valid: lagSeconds > 0.
RECURSIVE ApplyLagsPositiveOnly(_, _, _, _)
ApplyLagsPositiveOnly(lags, row, result, now) ==
    IF lags = <<>> THEN result
    ELSE LET lagCalc == Head(lags)
             lagSeconds == calculateLag(row[lagCalc.SourceColumn],
                                        lagCalc.TimestampFormat, now)
         IN  ApplyLagsPositiveOnly(Tail(lags), row,
                       IF lagCalc.SourceColumn \in DOMAIN row
                       THEN MapSet(result, lagCalc.OutputColumn,
                                   NullFloat64(lagSeconds > 0, lagSeconds))
                       ELSE result,
                       now)

\* The lag-calculation loop of applyTransformations.
RECURSIVE ApplyLags(_, _, _, _)
ApplyLags(lags, row, result, now) ==
    IF lags = <<>> THEN result
    ELSE LET lagCalc == Head(lags)
             lagSeconds == calculateLag(row[lagCalc.SourceColumn],
                                        lagCalc.TimestampFormat, now)
         IN  ApplyLags(Tail(lags), row,
                       IF lagCalc.SourceColumn \in DOMAIN row
                       THEN MapSet(result, lagCalc.OutputColumn,
                                   NullFloat64(lagSeconds # 0, lagSeconds))
                       ELSE result,
                       now)

\* applyTransformations
applyTransformations(row, metric, now) ==
    LET result == ApplyLags(metric.LagCalculations, row, row, now)
    IN  IF Len(metric.ColumnFilters) > 0
        THEN [c \in Range(metric.ColumnFilters) \cap DOMAIN result |-> result[c]]
        ELSE result


\* ------------------------------------------------- connection descriptors
\* os.LookupEnv: the environment holds V and no other variable.
EnvValue(name) == IF name = <<"V">> THEN [ok |-> TRUE, value |-> <<"s","/","k">>]
                  ELSE [ok |-> FALSE, value |-> <<>>]

Letters == {"p", "g", "x", "u", "h", "s", "t", "k", "d", "V", "W"}
Digits == {"5"}
\* The character that stands for an ASCII control character.
CTL == "^"

\* The longest prefix of s made of characters of S.
RECURSIVE Run(_, _)
Run(s, S) == IF s = <<>> \/ Head(s) \notin S THEN <<>> ELSE <<Head(s)>> \o Run(Tail(s), S)

Drop(s, n) == SubSeq(s, n + 1, Len(s))

\* expandEnv: os.Expand with a lookup that leaves an unset $NAME as it is.
RECURSIVE expandEnv(_)
expandEnv(env) ==
    IF env = <<>> THEN <<>>
    ELSE IF Head(env) = "$" /\ Run(Tail(env), Letters \cup Digits) # <<>>
    THEN LET name == Run(Tail(env), Letters \cup Digits)
             found == EnvValue(name)
         IN  (IF found.ok THEN found.value ELSE <<"$">> \o name)
             \o expandEnv(Drop(env, 1 + Len(name)))
    ELSE <<Head(env)>> \o expandEnv(Tail(env))

\* strings.Index and strings.LastIndex of one character, 0 when absent.
Index(s, x) == IF \E i \in DOMAIN s : s[i] = x
               THEN CHOOSE i \in DOMAIN s : s[i] = x /\ \A j \in 1..(i - 1) : s[j] # x
               ELSE 0
LastIndex(s, x) == IF \E i \in DOMAIN s : s[i] = x
                   THEN CHOOSE i \in DOMAIN s : s[i] = x /\ \A j \in (i + 1)..Len(s) : s[j] # x
                   ELSE 0

HasPrefix(s, pre) == Len(s) >= Len(pre) /\ SubSeq(s, 1, Len(pre)) = pre

\* An error: its fixed text and the piece of the input it quotes (%q).
Err(msg, quoted) == [msg |-> msg, quoted |-> quoted]
NoErr == Err("", <<>>)

\* url.Parse, as far as dburl.Parse's callers see it: the scheme and the
\* host, or the error inside the *url.Error it returns.  The authority ends at
\* the first "/", the host starts after its last "@", and what follows the
\* host's last ":" must be digits.
urlParse(raw) ==
    LET colon == Index(raw, ":")
        scheme == SubSeq(raw, 1, colon - 1)
        rest == Drop(raw, colon)
        afterSlashes == Drop(rest, 2)
        slash == Index(afterSlashes, "/")
        authority == IF slash = 0 THEN afterSlashes ELSE SubSeq(afterSlashes, 1, slash - 1)
        at == LastIndex(authority, "@")
        host == Drop(authority, at)
        hostColon == LastIndex(host, ":")
        colonPort == Drop(host, hostColon - 1)
    IN  IF \E i \in DOMAIN raw : raw[i] = CTL
        THEN [ok |-> FALSE, scheme |-> <<>>, host |-> <<>>,
              err |-> Err("net/url: invalid control character in URL", <<>>)]
        ELSE IF colon = 1
        THEN [ok |-> FALSE, scheme |-> <<>>, host |-> <<>>,
              err |-> Err("missing protocol scheme", <<>>)]
        ELSE IF colon = 0 \/ ~HasPrefix(rest, <<"/", "/">>)
        THEN [ok |-> TRUE, scheme |-> <<>>, host |-> <<>>, err |-> NoErr]
        ELSE IF hostColon > 0 /\ \E i \in 2..Len(colonPort) : colonPort[i] \notin Digits
        THEN [ok |-> FALSE, scheme |-> scheme, host |-> <<>>,
              err |-> Err("invalid port %q after host", colonPort)]
        ELSE [ok |-> TRUE, scheme |-> scheme, host |-> host, err |-> NoErr]

\* The schemes dburl knows a driver for.
KnownSchemes == {<<"p", "g">>}

\* dburl.Parse: url.Parse's error as it is (a *url.Error), or dburl's own
\* errors for a missing or unknown scheme (no *url.Error).
dburlParse(raw) ==
    LET u == urlParse(raw)
    IN  IF ~u.ok THEN [ok |-> FALSE, isUrlError |-> TRUE, err |-> u.err, driver |-> <<>>]
        ELSE IF u.scheme \notin KnownSchemes
        THEN [ok |-> FALSE, isUrlError |-> FALSE,
              err |-> Err("dburl: unknown database scheme", <<>>), driver |-> <<>>]
        ELSE [ok |-> TRUE, isUrlError |-> FALSE, err |-> NoErr, driver |-> u.scheme]

\* safeParse
safeParse(rawURL) ==
    LET parsed == dburlParse(expandEnv(rawURL))
    IN  IF ~parsed.ok
        THEN IF parsed.isUrlError
             THEN [ok |-> FALSE, err |-> parsed.err, driver |-> <<>>]
             ELSE [ok |-> FALSE, err |-> Err("invalid URL", <<>>), driver |-> <<>>]
        ELSE [ok |-> TRUE, err |-> NoErr, driver |-> parsed.driver]

\* A descriptor scheme://u:password@h/d as the string it is.
Descriptor(scheme, password) ==
    scheme \o <<":", "/", "/", "u", ":">> \o password \o <<"@", "h", "/", "d">>

Schemes == {<<"p", "g">>, <<"x">>, <<>>}
\* Passwords: plain ones, ones with a "/" in them, one that holds a control
\* character, and ones that name an environment variable.
Passwords == {<<"s">>, <<"t">>, <<"s", "/", "k">>, <<"t", "/", "k">>, <<"5", "/", "k">>,
              <<CTL>>, <<"$", "V">>, <<"$", "W">>}

\* ------------------------------------------------------------------- state
VARIABLES
    \* the Query and the configuration it was built from
    metricFamilies,      \* q.metricFamilies: the families' configurations, in order
    columnTypes,         \* q.columnTypes
    NoPreparedStatement, \* q.config.NoPreparedStatement
    IgnoreMissingVals,   \* config.IgnoreMissingVals
    qconn,               \* q.conn, "nil" or a handle
    qstmt,               \* q.stmt, 0 (nil) or a prepared statement
    \* the database side
    stmtOn,              \* the statements prepared so far: statement -> handle
    execLog,             \* the executions so far: [call, on, stmt], stmt 0 if unprepared
    \* the Collect invocations
    collects,            \* invocations started so far
    call,                \* per invocation: position, context, arguments, locals
    ch,                  \* per invocation: what it has sent on its channel
    cursor,              \* per invocation: the *sql.Rows run returned
    counters,            \* per invocation: the summary counters
    offers,              \* per invocation: the (row, family) pairs the pipeline saw
    \* OpenConnection
    dsn,                 \* the descriptor OpenConnection is called with
    twin,                \* a descriptor that differs from dsn in its password only
    oc,                  \* the caller: position, what it returned, the select branch
    ot,                  \* the goroutine: position, and the conn and err it assigns
    och,                 \* whether ch is closed
    octx,                \* whether ctx is cancelled
    cancelFirst,         \* whether ctx was cancelled while ch was not yet closed
    limits,              \* the handles whose pool limits were set
    \* PingDB
    pg,                  \* the caller: position, what it returned, the select branch
    pt,                  \* the goroutine: position, the ping's result, and whether
                         \* the context was cancelled when the ping started
    pch,                 \* ch: what is buffered, and whether it is closed
    pctx,                \* whether ctx is cancelled
    first,               \* which came first: "cancel", "ping" (its result sent) or ""
    pings,               \* PingDB invocations so far
    \* calls of the functions that keep no state
    nq,                  \* NewQuery: the families it was given and what it returned
    rf,                  \* applyRowFilter: the row, the filter and the verdict
    tr,                  \* applyTransformations: the row, the family and the result
    pl                   \* the loop over the families: the row, the families and what it did

fvars == <<nq, rf, tr, pl>>

qvars == <<metricFamilies, columnTypes, NoPreparedStatement, IgnoreMissingVals,
           qconn, qstmt, stmtOn, execLog, collects, call, ch, cursor, counters, offers,
           fvars>>

cvars == <<dsn, twin, oc, ot, och, octx, cancelFirst, limits, pg, pt, pch, pctx,
           first, pings>>

Handles == {"H1", "H2"}
\* Goroutines that may be inside Collect on the one Query.
Calls == {"c1", "c2"}

\* ------------------------------------------------------------ the scenario
PROD == <<"p","r","o","d">>
DEV == <<"d","e","v">>

\* lag_seconds is derived from updated_at and kept for env = prod only.
mfLag == MetricConfig(<<LagCalculation("updated_at", "lag_seconds", "")>>,
                      <<RowFilter("env", "equals", PROD, <<>>)>>,
                      <<"env">>, <<"lag_seconds">>, "", <<>>)
\* v by env, stamped with ts, for every row.
mfAll == MetricConfig(<<>>, <<>>, <<"env">>, <<"v">>, "ts", <<>>)

\* mfLag with a second filter: the timestamp must hold a date of 1970.
mfStrict == MetricConfig(<<LagCalculation("updated_at", "lag_seconds", "")>>,
                         <<RowFilter("env", "equals", PROD, <<>>),
                           RowFilter("updated_at", "contains", <<"1", "9", "7", "0">>, <<>>)>>,
                         <<"env">>, <<"lag_seconds">>, "", <<>>)

QueryFamilies == {<<mfLag, mfAll>>, <<mfAll>>, <<mfStrict, mfLag>>}

\* The column lists a result set may come with: as asked for, with extra,
\* unnamed and repeated columns, and with required columns missing.
ColumnsPool == {<<"env", "updated_at", "v", "ts">>,
                <<"env", "updated_at", "v", "ts", "extra", "", "env">>,
                <<"env", "v">>}

AllColumns == {"env", "updated_at", "v", "ts", "extra", ""}

RawRow(env, updated, v, ts) ==
    [c \in AllColumns |->
        CASE c = "env" -> env [] c = "updated_at" -> updated [] c = "v" -> v
          [] c = "ts" -> ts [] c = "extra" -> DbNum(7) [] OTHER -> DbNull]

\* The rows a cursor may yield: a prod row 30 s old, a row of NULLs, and a
\* row whose value column is no number and whose timestamp text is no date.
ProdRow == RawRow(DbText(PROD), DbText(FormatTime(DefaultLayout, Clock - 30)), DbNum(1), DbTime(5))
NullRow == RawRow(DbNull, DbNull, DbNull, DbNull)
BadRow == RawRow(DbText(PROD), DbText(<<"?">>), DbText(<<"x">>), DbTime(9))

RowPool == {ProdRow, NullRow, BadRow}

\* A row of a result set: the driver's values and whether reading it fails
\* (rows.Columns() or the driver under rows.Scan), which any row may do.
CursorRows == {[raw |-> r, ioErr |-> FALSE] : r \in RowPool}
              \cup {[raw |-> ProdRow, ioErr |-> TRUE]}

RECURSIVE SeqsUpTo(_, _)
SeqsUpTo(S, n) ==
    IF n = 0 THEN {<<>>}
    ELSE LET shorter == SeqsUpTo(S, n - 1)
         IN  shorter \cup {Append(q, x) : q \in {r \in shorter : Len(r) = n - 1}, x \in S}

ResultSets == SeqsUpTo(CursorRows, MaxRows)

\* ----------------------------------------------------------------- messages
\* NewInvalidMetric(err): err names the stage that failed; cols are the
\* columns the error names, rowIdx the row it is about.
InvalidMetric(err, cols, rowIdx) ==
    [kind |-> "invalid", err |-> err, cols |-> cols, mf |-> 0, rowIdx |-> rowIdx,
     data |-> EmptyMap]
\* What MetricFamily.Collect puts on the channel for a row it is handed:
\* family k (position in q.metricFamilies) received the row data.
Sample(k, rowIdx, data) ==
    [kind |-> "sample", err |-> "", cols |-> {}, mf |-> k, rowIdx |-> rowIdx,
     data |-> data]

\* MetricFamily.Collect(row, ch): the messages it sends.
mfCollect(k, rowIdx, row) == <<Sample(k, rowIdx, row)>>

\* rows: what the result set holds, each row with the driver's values and
\* whether reading it fails; pos: the rows rows.Next() has stepped over.
NoCursor == [state |-> "none", columns |-> <<>>, rows |-> <<>>, pos |-> 0,
             err |-> FALSE, on |-> "nil", stmt |-> 0]
ZeroCounters == [processed |-> 0, filtered |-> 0, generated |-> 0]
\* fail: the error of the stage that failed ("" if none); outcome: the way
\* Collect ended.
IdleCall == [pc |-> "idle", ctxDone |-> FALSE, conn |-> "nil", entryCancelled |-> FALSE,
             stmt |-> 0, executed |-> FALSE, fail |-> "", outcome |-> ""]

\* OpenConnection not yet called on a descriptor that parses.
InitConn0 ==
    /\ dsn = Descriptor(<<"p", "g">>, <<"s">>)
    /\ twin = dsn
    /\ oc = [pc |-> "start", conn |-> "nil", err |-> NoErr, branch |-> ""]
    /\ ot = [pc |-> "none", conn |-> "nil", err |-> NoErr]
    /\ och = FALSE
    /\ octx = FALSE
    /\ cancelFirst = FALSE
    /\ limits = {}
    /\ pg = [pc |-> "idle", ret |-> "", branch |-> ""]
    /\ pt = [pc |-> "none", result |-> "", late |-> FALSE]
    /\ pch = [buf |-> <<>>, closed |-> FALSE]
    /\ pctx = FALSE
    /\ first = ""
    /\ pings = 0

\* No call yet of NewQuery, applyRowFilter or applyTransformations on its own.
NoNewQuery == [pc |-> "idle", families |-> <<>>, ok |-> FALSE, column |-> "",
               types |-> EmptyMap]
NoFilterCall == [pc |-> "idle", row |-> EmptyMap, filter |-> RowFilter("", "", <<>>, <<>>),
                 matched |-> FALSE]
NoTransformCall == [pc |-> "idle", row |-> EmptyMap,
                    metric |-> MetricConfig(<<>>, <<>>, <<>>, <<>>, "", <<>>),
                    result |-> EmptyMap]

NoPipelineCall == [pc |-> "idle", row |-> EmptyMap, families |-> <<>>,
                   out |-> [msgs |-> <<>>, filtered |-> 0, generated |-> 0, offers |-> <<>>]]

InitFn0 ==
    /\ nq = NoNewQuery
    /\ rf = NoFilterCall
    /\ tr = NoTransformCall
    /\ pl = NoPipelineCall

\* A Query just built by NewQuery, and no Collect yet.
InitQuery(families) ==
    /\ InitFn0
    /\ metricFamilies = families
    /\ columnTypes = NewQuery(metricFamilies).types
    /\ qconn = "nil"
    /\ qstmt = 0
    /\ stmtOn = <<>>
    /\ execLog = {}
    /\ collects = 0
    /\ call = [c \in Calls |-> IdleCall]
    /\ ch = [c \in Calls |-> <<>>]
    /\ cursor = [c \in Calls |-> NoCursor]
    /\ counters = [c \in Calls |-> ZeroCounters]
    /\ offers = [c \in Calls |-> <<>>]

Init ==
    /\ InitConn0
    /\ \E families \in QueryFamilies : InitQuery(families)
    /\ NoPreparedStatement \in BOOLEAN
    /\ IgnoreMissingVals \in BOOLEAN

\* A panic ends the process: no goroutine takes another step.
crashed == \E c \in Calls : call[c].pc = "panicked"
Active(c) == call[c].pc \notin {"idle", "returned", "panicked"}

\* What no step of Collect writes: the configuration, the role map and the
\* families, and the connection helpers' state.
Config == <<metricFamilies, columnTypes, NoPreparedStatement, IgnoreMissingVals, cvars,
            fvars>>

\* ------------------------------------------------------------------ Collect
\* Collect is entered with a handle and a context; the context is checked first.
CollectBegin(c) ==
    /\ ~crashed
    /\ call[c].pc \in {"idle", "returned"}
    /\ collects < MaxCollects
    /\ \E h \in Handles, cancelled \in BOOLEAN :
          /\ call' = [call EXCEPT ![c] =
                        [pc |-> IF cancelled THEN "returned" ELSE "run",
                         ctxDone |-> cancelled, conn |-> h, entryCancelled |-> cancelled,
                         stmt |-> 0, executed |-> FALSE,
                         fail |-> IF cancelled THEN "ctx" ELSE "",
                         outcome |-> IF cancelled THEN "ctx" ELSE ""]]
          /\ ch' = [ch EXCEPT ![c] =
                        IF cancelled THEN <<InvalidMetric("ctx", {}, 0)>> ELSE <<>>]
    /\ collects' = collects + 1
    /\ cursor' = [cursor EXCEPT ![c] = NoCursor]
    /\ counters' = [counters EXCEPT ![c] = ZeroCounters]
    /\ offers' = [offers EXCEPT ![c] = <<>>]
    /\ UNCHANGED <<Config, qconn, qstmt, stmtOn, execLog>>

\* The caller cancels the context while Collect is running.
CancelCtx(c) ==
    /\ ~crashed
    /\ Active(c)
    /\ ~call[c].ctxDone
    /\ call' = [call EXCEPT ![c].ctxDone = TRUE]
    /\ UNCHANGED <<Config, qconn, qstmt, stmtOn, execLog, collects, ch, cursor,
                   counters, offers>>

\* run returned an error: Collect sends it and returns.
RunFailed(c, err) ==
    /\ call' = [call EXCEPT ![c].pc = "returned", ![c].fail = err,
                            ![c].outcome = "runErr"]
    /\ ch' = [ch EXCEPT ![c] = Append(@, InvalidMetric(err, {}, 0))]
    /\ UNCHANGED <<cursor, execLog>>

\* run returned rows on handle h by statement st (0: unprepared).  What the
\* result set holds shows when Collect first reads it, in ScanDest.
RunSucceeded(c, h, st) ==
    /\ cursor' = [cursor EXCEPT ![c] =
                    [NoCursor EXCEPT !.state = "open", !.on = h, !.stmt = st]]
    /\ execLog' = execLog \cup {[call |-> c, on |-> h, stmt |-> st]}
    /\ call' = [call EXCEPT ![c].pc = "scanDest", ![c].executed = TRUE]
    /\ UNCHANGED ch

\* The handle check downgraded to a warning: never a panic.
HandleMismatchIgnored(bound, conn) == FALSE

\* if q.conn != nil && q.conn != conn { panic(...) }
HandleMismatch(bound, conn) == bound # "nil" /\ bound # conn

\* run: the handle check, then the choice of the execution mode.
RunCheckHandle(c) ==
    /\ ~crashed
    /\ call[c].pc = "run"
    /\ call' = [call EXCEPT
                  ![c].pc = IF HandleMismatch(qconn, call[c].conn) THEN "panicked"
                            ELSE IF NoPreparedStatement THEN "query"
                            ELSE "checkStmt",
                  ![c].outcome = IF HandleMismatch(qconn, call[c].conn)
                                 THEN "panic" ELSE @]
    /\ UNCHANGED <<Config, qconn, qstmt, stmtOn, execLog, collects, ch, cursor,
                   counters, offers>>

\* run, unprepared: conn.QueryContext(ctx, q.config.Query)
RunQuery(c) ==
    /\ ~crashed
    /\ call[c].pc = "query"
    /\ \/ RunSucceeded(c, call[c].conn, 0)
       \/ RunFailed(c, "run")
    /\ UNCHANGED <<Config, qconn, qstmt, stmtOn, collects, counters, offers>>

\* run, prepared: if q.stmt == nil
RunCheckStmt(c) ==
    /\ ~crashed
    /\ call[c].pc = "checkStmt"
    /\ call' = [call EXCEPT ![c].pc = IF qstmt = 0 THEN "prepare" ELSE "stmtQuery"]
    /\ UNCHANGED <<Config, qconn, qstmt, stmtOn, execLog, collects, ch, cursor,
                   counters, offers>>

\* run, prepared, q.stmt == nil: conn.PrepareContext(ctx, q.config.Query)
RunPrepare(c) ==
    /\ ~crashed
    /\ call[c].pc = "prepare"
    /\ \/ /\ stmtOn' = Append(stmtOn, call[c].conn)
          /\ call' = [call EXCEPT ![c].pc = "setConn", ![c].stmt = Len(stmtOn) + 1]
          /\ UNCHANGED <<ch, cursor, execLog>>
       \/ /\ RunFailed(c, "prepare")
          /\ UNCHANGED stmtOn
    /\ UNCHANGED <<Config, qconn, qstmt, collects, counters, offers>>

\* q.conn = conn
RunSetConn(c) ==
    /\ ~crashed
    /\ call[c].pc = "setConn"
    /\ qconn' = call[c].conn
    /\ call' = [call EXCEPT ![c].pc = "setStmt"]
    /\ UNCHANGED <<Config, qstmt, stmtOn, execLog, collects, ch, cursor, counters, offers>>

\* q.stmt = stmt
RunSetStmt(c) ==
    /\ ~crashed
    /\ call[c].pc = "setStmt"
    /\ qstmt' = call[c].stmt
    /\ call' = [call EXCEPT ![c].pc = "stmtQuery"]
    /\ UNCHANGED <<Config, qconn, stmtOn, execLog, collects, ch, cursor, counters, offers>>

\* run, prepared: q.stmt.QueryContext(ctx), on the handle the statement is of
RunStmtQuery(c) ==
    /\ ~crashed
    /\ call[c].pc = "stmtQuery"
    /\ \/ RunSucceeded(c, stmtOn[qstmt], qstmt)
       \/ RunFailed(c, "run")
    /\ UNCHANGED <<Config, qconn, qstmt, stmtOn, collects, counters, offers>>

\* ------------------------------------------------- Collect, after run returned
\* The deferred rows.Close() left out: the rows stay as they are.
ClosedNever(cur) == cur

\* The deferred rows.Close()
Closed(cur) == [cur EXCEPT !.state = "closed"]

\* rows.Columns() fails on rows that are closed, and rows just returned by a
\* query are closed only by the cancellation of the query's context.
ColumnsErrs(c) == IF call[c].ctxDone THEN BOOLEAN ELSE {FALSE}

\* dest, err := q.scanDest(rows) and the two ways out on an error; the deferred
\* rows.Close() runs on both.
ScanDest(c) ==
    /\ ~crashed
    /\ call[c].pc = "scanDest"
    /\ \E columns \in ColumnsPool, rows \in ResultSets, columnsErr \in ColumnsErrs(c) :
          LET d == scanDest(columnTypes, columns, columnsErr)
              cur == [cursor[c] EXCEPT !.columns = columns, !.rows = rows]
          IN  IF d.ok
              THEN /\ call' = [call EXCEPT ![c].pc = "next"]
                   /\ cursor' = [cursor EXCEPT ![c] = cur]
                   /\ UNCHANGED ch
              ELSE IF IgnoreMissingVals
              THEN /\ call' = [call EXCEPT ![c].pc = "returned", ![c].fail = d.err,
                                           ![c].outcome = "shapeSkipped"]
                   /\ cursor' = [cursor EXCEPT ![c] = Closed(cur)]
                   /\ UNCHANGED ch
              ELSE /\ call' = [call EXCEPT ![c].pc = "returned", ![c].fail = d.err,
                                           ![c].outcome = "shapeErr"]
                   /\ ch' = [ch EXCEPT ![c] = Append(@, InvalidMetric(d.err, d.missing, 0))]
                   /\ cursor' = [cursor EXCEPT ![c] = Closed(cur)]
    /\ UNCHANGED <<Config, qconn, qstmt, stmtOn, execLog, collects, counters, offers>>

\* The loop over q.metricFamilies for one scanned row, from family k on:
\* the messages sent, the counters' increments and the pairs visited.
RECURSIVE Pipeline(_, _, _, _, _)

\* The loop with applyTransformations writing the lag outputs into the row it
\* is given and dropping from it the columns off the allowlist: the families
\* after it get the row as it left it.
PipelineInPlace(mfs, k, row, rowIdx, now) ==
    IF k > Len(mfs)
    THEN [msgs |-> <<>>, filtered |-> 0, generated |-> 0, offers |-> <<>>]
    ELSE IF ~shouldIncludeRow(row, mfs[k])
    THEN [Pipeline(mfs, k + 1, row, rowIdx, now) EXCEPT
            !.filtered = @ + 1,
            !.offers = <<[row |-> rowIdx, mf |-> k, included |-> FALSE]>> \o @]
    ELSE LET transformedRow == applyTransformations(row, mfs[k], now)
         IN  [Pipeline(mfs, k + 1, transformedRow, rowIdx, now) EXCEPT
                !.msgs = mfCollect(k, rowIdx, transformedRow) \o @,
                !.generated = @ + 1,
                !.offers = <<[row |-> rowIdx, mf |-> k, included |-> TRUE]>> \o @]

\* The loop over q.metricFamilies run from the last family to the first.
PipelineLastFirst(mfs, k, row, rowIdx, now) ==
    IF k > Len(mfs)
    THEN [msgs |-> <<>>, filtered |-> 0, generated |-> 0, offers |-> <<>>]
    ELSE LET rest == Pipeline(mfs, k + 1, row, rowIdx, now)
         IN  IF ~shouldIncludeRow(row, mfs[k])
             THEN [rest EXCEPT !.filtered = @ + 1,
                               !.offers = @ \o <<[row |-> rowIdx, mf |-> k, included |-> FALSE]>>]
             ELSE [rest EXCEPT
                     !.msgs = @ \o mfCollect(k, rowIdx, applyTransformations(row, mfs[k], now)),
                     !.generated = @ + 1,
                     !.offers = @ \o <<[row |-> rowIdx, mf |-> k, included |-> TRUE]>>]

\* The loop with metricsGenerated++ moved above the filter test: an excluded
\* pair counts as generated too.
PipelineCountingExcluded(mfs, k, row, rowIdx, now) ==
    IF k > Len(mfs)
    THEN [msgs |-> <<>>, filtered |-> 0, generated |-> 0, offers |-> <<>>]
    ELSE LET rest == Pipeline(mfs, k + 1, row, rowIdx, now)
         IN  IF ~shouldIncludeRow(row, mfs[k])
             THEN [rest EXCEPT !.filtered = @ + 1, !.generated = @ + 1,
                               !.offers = <<[row |-> rowIdx, mf |-> k, included |-> FALSE]>> \o @]
             ELSE [rest EXCEPT
                     !.msgs = mfCollect(k, rowIdx, applyTransformations(row, mfs[k], now)) \o @,
                     !.generated = @ + 1,
                     !.offers = <<[row |-> rowIdx, mf |-> k, included |-> TRUE]>> \o @]

Pipeline(mfs, k, row, rowIdx, now) ==
    IF k > Len(mfs)
    THEN [msgs |-> <<>>, filtered |-> 0, generated |-> 0, offers |-> <<>>]
    ELSE LET rest == Pipeline(mfs, k + 1, row, rowIdx, now)
         IN  IF ~shouldIncludeRow(row, mfs[k])
             THEN [rest EXCEPT !.filtered = @ + 1,
                               !.offers = <<[row |-> rowIdx, mf |-> k, included |-> FALSE]>> \o @]
             ELSE [rest EXCEPT
                     !.msgs = mfCollect(k, rowIdx, applyTransformations(row, mfs[k], now)) \o @,
                     !.generated = @ + 1,
                     !.offers = <<[row |-> rowIdx, mf |-> k, included |-> TRUE]>> \o @]

\* A scan error that ends the loop ("break").
AfterScanErrorBreak == "rowsErr"

\* Where the loop goes after a row's scan error: "continue".
AfterScanError == "next"

\* One iteration of "for rows.Next()": the cursor yields a row, it is scanned,
\* and it goes through the pipeline of every family, or its scan error is sent.
NextRow(c) ==
    /\ ~crashed
    /\ call[c].pc = "next"
    /\ cursor[c].pos < Len(cursor[c].rows)
    /\ LET rowIdx == cursor[c].pos + 1
           cr == cursor[c].rows[rowIdx]
           r == scanRow(columnTypes, cursor[c].columns, cr.raw, cr.ioErr)
           p == Pipeline(metricFamilies, 1, r.row, rowIdx, Clock)
       IN  /\ cursor' = [cursor EXCEPT ![c].pos = rowIdx]
           /\ IF ~r.ok
              THEN /\ ch' = [ch EXCEPT ![c] = Append(@, InvalidMetric("row", {}, rowIdx))]
                   /\ counters' = [counters EXCEPT ![c].processed = @ + 1]
                   /\ UNCHANGED offers
                   /\ call' = [call EXCEPT ![c].pc = AfterScanError]
              ELSE /\ ch' = [ch EXCEPT ![c] = @ \o p.msgs]
                   /\ counters' = [counters EXCEPT ![c].processed = @ + 1,
                                                   ![c].filtered = @ + p.filtered,
                                                   ![c].generated = @ + p.generated]
                   /\ offers' = [offers EXCEPT ![c] = @ \o p.offers]
                   /\ UNCHANGED call
    /\ UNCHANGED <<Config, qconn, qstmt, stmtOn, execLog, collects>>

\* rows.Next() returns false, at the end of the result set or on an error
\* rows.Err() will report; database/sql closes the rows at that point.
NextEnd(c) ==
    /\ ~crashed
    /\ call[c].pc = "next"
    /\ cursor[c].pos = Len(cursor[c].rows)
    /\ \E failed \in BOOLEAN :
          cursor' = [cursor EXCEPT ![c].err = failed, ![c].state = "closed"]
    /\ call' = [call EXCEPT ![c].pc = "rowsErr"]
    /\ UNCHANGED <<Config, qconn, qstmt, stmtOn, execLog, collects, ch, counters, offers>>

\* The final error sent in place of what was sent for the rows.
FinalMsgsAlone(cur, sent) ==
    IF cur.err THEN <<InvalidMetric("cursor", {}, 0)>> ELSE sent

\* if err1 := rows.Err(); err1 != nil { ch <- NewInvalidMetric(...) }
FinalMsgs(cur, sent) ==
    IF cur.err THEN Append(sent, InvalidMetric("cursor", {}, 0)) ELSE sent

\* rows.Err(), the summary, the deferred rows.Close() and the return.
CollectEnd(c) ==
    /\ ~crashed
    /\ call[c].pc = "rowsErr"
    /\ ch' = [ch EXCEPT ![c] = FinalMsgs(cursor[c], @)]
    /\ cursor' = [cursor EXCEPT ![c] = Closed(@)]
    /\ call' = [call EXCEPT ![c].pc = "returned", ![c].outcome = "done"]
    /\ UNCHANGED <<Config, qconn, qstmt, stmtOn, execLog, collects, counters, offers>>

\* One step of the invocation c.
CollectStep(c) ==
    \/ CollectBegin(c)
    \/ CancelCtx(c)
    \/ RunCheckHandle(c)
    \/ RunQuery(c)
    \/ RunCheckStmt(c)
    \/ RunPrepare(c)
    \/ RunSetConn(c)
    \/ RunSetStmt(c)
    \/ RunStmtQuery(c)
    \/ ScanDest(c)
    \/ NextRow(c)
    \/ NextEnd(c)
    \/ CollectEnd(c)

\* Collect invocations one after the other.
Next == CollectStep("c1")

\* Everything Collect does after run has returned, as one step: from there on
\* an invocation reads the Query's role map and families and writes nothing
\* but its own cursor, channel and counters, so that for what overlapping
\* invocations do to the Query only its end matters: the rows are closed and
\* Collect returns.
CollectRest(c) ==
    /\ ~crashed
    /\ call[c].pc = "scanDest"
    /\ call' = [call EXCEPT ![c].pc = "returned", ![c].outcome = "rest"]
    /\ cursor' = [cursor EXCEPT ![c] = Closed(@)]
    /\ UNCHANGED <<Config, qconn, qstmt, stmtOn, execLog, collects, ch, counters, offers>>

\* Collect invocations that overlap.
NextOverlap ==
    \E c \in Calls :
        \/ CollectBegin(c)
        \/ CancelCtx(c)
        \/ RunCheckHandle(c)
        \/ RunQuery(c)
        \/ RunCheckStmt(c)
        \/ RunPrepare(c)
        \/ RunSetConn(c)
        \/ RunSetStmt(c)
        \/ RunStmtQuery(c)
        \/ CollectRest(c)

vars == <<qvars, cvars>>

Spec == Init /\ [][Next]_vars
SpecOverlap == Init /\ [][NextOverlap]_vars


\* ----------------------------------------------------------- OpenConnection
\* Pool limits set on a handle, and the error of a cancelled context.
CtxErr == Err("context canceled", <<>>)
OpenErr == Err("sql: unknown driver", <<>>)

\* The code up to the select: safeParse, and on success the goroutine is started.
OpenBegin ==
    /\ oc.pc = "start"
    /\ LET url == safeParse(dsn)
       IN  IF ~url.ok
           THEN /\ oc' = [oc EXCEPT !.pc = "returned", !.conn = "nil", !.err = url.err]
                /\ UNCHANGED ot
           ELSE /\ oc' = [oc EXCEPT !.pc = "select"]
                /\ ot' = [ot EXCEPT !.pc = "open"]
    /\ UNCHANGED <<qvars, dsn, twin, och, octx, cancelFirst, limits, pg, pt, pch, pctx,
                   first, pings>>

\* The caller's context is cancelled, before or while OpenConnection runs.
OpenCancel ==
    /\ oc.pc \in {"start", "select"}
    /\ ~octx
    /\ octx' = TRUE
    /\ cancelFirst' = ~och
    /\ UNCHANGED <<qvars, dsn, twin, oc, ot, och, limits, pg, pt, pch, pctx, first, pings>>

\* go func: conn, err = sql.Open(driver, url.DSN)
OpenTaskOpen ==
    /\ ot.pc = "open"
    /\ \/ ot' = [pc |-> "signal", conn |-> "H1", err |-> NoErr]
       \/ ot' = [pc |-> "signal", conn |-> "nil", err |-> OpenErr]
    /\ UNCHANGED <<qvars, dsn, twin, oc, och, octx, cancelFirst, limits, pg, pt, pch,
                   pctx, first, pings>>

\* go func: close(ch)
OpenTaskSignal ==
    /\ ot.pc = "signal"
    /\ och' = TRUE
    /\ ot' = [ot EXCEPT !.pc = "done"]
    /\ UNCHANGED <<qvars, dsn, twin, oc, octx, cancelFirst, limits, pg, pt, pch, pctx,
                   first, pings>>

\* select, case <-ctx.Done(): return nil, ctx.Err()
OpenSelectCtx ==
    /\ oc.pc = "select"
    /\ octx
    /\ oc' = [pc |-> "returned", conn |-> "nil", err |-> CtxErr, branch |-> "ctx"]
    /\ UNCHANGED <<qvars, dsn, twin, ot, och, octx, cancelFirst, limits, pg, pt, pch,
                   pctx, first, pings>>

\* select, case <-ch: if err != nil { return nil, err }
OpenSelectCh ==
    /\ oc.pc = "select"
    /\ och
    /\ oc' = IF ot.err # NoErr
             THEN [pc |-> "returned", conn |-> "nil", err |-> ot.err, branch |-> "ch"]
             ELSE [oc EXCEPT !.pc = "limits", !.branch = "ch"]
    /\ UNCHANGED <<qvars, dsn, twin, ot, och, octx, cancelFirst, limits, pg, pt, pch,
                   pctx, first, pings>>

\* conn.SetMaxIdleConns, SetMaxOpenConns, SetConnMaxLifetime; return conn, nil
OpenSetLimits ==
    /\ oc.pc = "limits"
    /\ limits' = limits \cup {ot.conn}
    /\ oc' = [oc EXCEPT !.pc = "returned", !.conn = ot.conn, !.err = NoErr]
    /\ UNCHANGED <<qvars, dsn, twin, ot, och, octx, cancelFirst, pg, pt, pch, pctx,
                   first, pings>>

\* ------------------------------------------------------------------- PingDB
\* make(chan error, 1) made without a buffer.
PingChanUnbuffered == 1 - 1

\* ch := make(chan error, 1)
PingChanCap == 1

\* PingDB is called on the handle OpenConnection returned; the goroutine of
\* an earlier PingDB has ended.
PingBegin ==
    /\ oc.pc = "returned"
    /\ oc.conn # "nil"
    /\ pg.pc \in {"idle", "returned"}
    /\ pt.pc \in {"none", "done"}
    /\ pings < MaxPings
    /\ pings' = pings + 1
    /\ \E cancelled \in BOOLEAN :
          /\ pctx' = cancelled
          /\ first' = IF cancelled THEN "cancel" ELSE ""
    /\ pg' = [pc |-> "select", ret |-> "", branch |-> ""]
    /\ pt' = [pc |-> "start", result |-> "", late |-> FALSE]
    /\ pch' = [buf |-> <<>>, closed |-> FALSE]
    /\ UNCHANGED <<qvars, dsn, twin, oc, ot, och, octx, cancelFirst, limits>>

\* The caller's context is cancelled while PingDB runs.
PingCancel ==
    /\ pg.pc = "select"
    /\ ~pctx
    /\ pctx' = TRUE
    /\ first' = IF first = "" THEN "cancel" ELSE first
    /\ UNCHANGED <<qvars, dsn, twin, oc, ot, och, octx, cancelFirst, limits, pg, pt, pch,
                   pings>>

\* go func: conn.PingContext(ctx) is called.
PingTaskStart ==
    /\ pt.pc = "start"
    /\ pt' = [pt EXCEPT !.pc = "ping", !.late = pctx]
    /\ UNCHANGED <<qvars, dsn, twin, oc, ot, och, octx, cancelFirst, limits, pg, pch,
                   pctx, first, pings>>

\* go func: conn.PingContext(ctx) returns.  Called under a cancelled context
\* it returns the context's error; cancelled while it runs it may return it.
PingTaskPing ==
    /\ pt.pc = "ping"
    /\ \E r \in IF pt.late THEN {"ctxErr"}
               ELSE {"nil", "pingErr"} \cup (IF pctx THEN {"ctxErr"} ELSE {}) :
          pt' = [pt EXCEPT !.pc = "send", !.result = r]
    /\ UNCHANGED <<qvars, dsn, twin, oc, ot, och, octx, cancelFirst, limits, pg, pch,
                   pctx, first, pings>>

\* go func: ch <- result.  With room in the buffer the send goes through; on a
\* channel without buffer it needs the caller to be waiting in the select,
\* and hands it the result.
PingTaskSend ==
    /\ pt.pc = "send"
    /\ IF PingChanCap = 0
       THEN /\ pg.pc = "select"
            /\ pg' = [pc |-> "returned", ret |-> pt.result, branch |-> "ch"]
            /\ UNCHANGED pch
       ELSE /\ Len(pch.buf) < PingChanCap
            /\ pch' = [pch EXCEPT !.buf = Append(@, pt.result)]
            /\ UNCHANGED pg
    /\ pt' = [pt EXCEPT !.pc = "close"]
    /\ first' = IF first = "" THEN "ping" ELSE first
    /\ UNCHANGED <<qvars, dsn, twin, oc, ot, och, octx, cancelFirst, limits, pctx, pings>>

\* go func: close(ch)
PingTaskClose ==
    /\ pt.pc = "close"
    /\ pch' = [pch EXCEPT !.closed = TRUE]
    /\ pt' = [pt EXCEPT !.pc = "done"]
    /\ UNCHANGED <<qvars, dsn, twin, oc, ot, och, octx, cancelFirst, limits, pg, pctx,
                   first, pings>>

\* select, case <-ctx.Done(): return ctx.Err()
PingSelectCtx ==
    /\ pg.pc = "select"
    /\ pctx
    /\ pg' = [pc |-> "returned", ret |-> "ctxErr", branch |-> "ctx"]
    /\ UNCHANGED <<qvars, dsn, twin, oc, ot, och, octx, cancelFirst, limits, pt, pch,
                   pctx, first, pings>>

\* select, case err := <-ch: return err.  A closed, empty channel yields nil.
PingSelectCh ==
    /\ pg.pc = "select"
    /\ pch.buf # <<>> \/ pch.closed
    /\ pg' = [pc |-> "returned",
              ret |-> IF pch.buf # <<>> THEN Head(pch.buf) ELSE "nil",
              branch |-> "ch"]
    /\ pch' = [pch EXCEPT !.buf = IF @ # <<>> THEN Tail(@) ELSE @]
    /\ UNCHANGED <<qvars, dsn, twin, oc, ot, och, octx, cancelFirst, limits, pt, pctx,
                   first, pings>>

\* OpenConnection on any descriptor, with a twin that has another password.
InitConn ==
    /\ \E scheme \in Schemes, pw \in Passwords, pw2 \in Passwords :
          /\ dsn = Descriptor(scheme, pw)
          /\ twin = Descriptor(scheme, pw2)
    /\ oc = [pc |-> "start", conn |-> "nil", err |-> NoErr, branch |-> ""]
    /\ ot = [pc |-> "none", conn |-> "nil", err |-> NoErr]
    /\ och = FALSE
    /\ octx = FALSE
    /\ cancelFirst = FALSE
    /\ limits = {}
    /\ pg = [pc |-> "idle", ret |-> "", branch |-> ""]
    /\ pt = [pc |-> "none", result |-> "", late |-> FALSE]
    /\ pch = [buf |-> <<>>, closed |-> FALSE]
    /\ pctx = FALSE
    /\ first = ""
    /\ pings = 0
    /\ InitQuery(<<mfAll>>)
    /\ NoPreparedStatement = FALSE
    /\ IgnoreMissingVals = FALSE

NextConn ==
    \/ OpenBegin
    \/ OpenCancel
    \/ OpenTaskOpen
    \/ OpenTaskSignal
    \/ OpenSelectCtx
    \/ OpenSelectCh
    \/ OpenSetLimits
    \/ PingBegin
    \/ PingCancel
    \/ PingTaskStart
    \/ PingTaskPing
    \/ PingTaskSend
    \/ PingTaskClose
    \/ PingSelectCtx
    \/ PingSelectCh

SpecConn == InitConn /\ [][NextConn]_vars

\* The scheduler runs a goroutine that can run: each step of the two
\* goroutines is taken if it stays possible.
FairSpecConn ==
    /\ SpecConn
    /\ WF_vars(OpenTaskSignal)
    /\ WF_vars(PingTaskSend)
    /\ WF_vars(PingTaskClose)

\* ------------------------------------------- the functions that keep no state
\* Metric families NewQuery is given at most.
MaxFamilies == 2

\* The family configurations NewQuery may be given, over the columns a and b:
\* with or without a lag calculation from a to b, a row filter on a, the key
\* label b, the value columns b or b and a, and the timestamp column a.
FamilyPool ==
    {MetricConfig(lags, filters, keys, vals, ts, <<>>) :
        lags \in {<<>>, <<LagCalculation("a", "b", "")>>},
        filters \in {<<>>, <<RowFilter("a", "equals", <<>>, <<>>)>>},
        keys \in {<<>>, <<"b">>},
        vals \in {<<>>, <<"b">>, <<"b", "a">>},
        ts \in {"", "a"}}

\* Each behaviour of the functions that keep no state is one call of one of
\* them, on any input.
NoCallYet == nq.pc = "idle" /\ rf.pc = "idle" /\ tr.pc = "idle" /\ pl.pc = "idle"

\* NewQuery(logContext, qc, metricFamilies...)
CallNewQuery ==
    /\ NoCallYet
    /\ \E families \in SeqsUpTo(FamilyPool, MaxFamilies) :
          LET r == NewQuery(families)
          IN  nq' = [pc |-> "done", families |-> families, ok |-> r.ok,
                     column |-> r.column,
                     types |-> IF r.ok THEN r.types ELSE EmptyMap]
    /\ UNCHANGED <<rf, tr, pl, metricFamilies, columnTypes, NoPreparedStatement, IgnoreMissingVals,
                   qconn, qstmt, stmtOn, execLog, collects, call, ch, cursor, counters,
                   offers, cvars>>

\* Comparison values a filter's value set holds at most.
MaxValues == 2
\* Lag calculations a family configures at most.
MaxLags == 2

\* The values a Row may hold in one column: NULL and not NULL, of each kind.
CellPool ==
    {NullString(FALSE, <<>>), NullString(TRUE, <<>>), NullString(TRUE, PROD),
     NullString(TRUE, DEV), NullFloat64(FALSE, 0), NullFloat64(TRUE, 1),
     NullTime(FALSE, 0), NullTime(TRUE, 5)}

\* The rows applyRowFilter is called on: with nothing but the column other,
\* or with the column env holding any of the values.
FilterRows ==
    {MapSet(EmptyMap, "other", NullString(TRUE, PROD))}
    \cup {MapSet(EmptyMap, "env", v) : v \in CellPool}

\* The operators a configuration may name: the five known ones, a misspelt
\* one and none.
Operators == {"equals", "not_equals", "in", "not_in", "contains", "matches", ""}

\* The strings a filter compares with.
ComparePool == {PROD, DEV, <<"1">>}

FilterPool ==
    {RowFilter("env", op, val, vals) :
        op \in Operators,
        val \in ComparePool \cup {<<>>, <<"r", "o">>},
        vals \in SeqsUpTo(ComparePool, MaxValues)}

\* q.applyRowFilter(row, filter)
CallApplyRowFilter ==
    /\ NoCallYet
    /\ \E row \in FilterRows, filter \in FilterPool :
          rf' = [pc |-> "done", row |-> row, filter |-> filter,
                 matched |-> applyRowFilter(row, filter)]
    /\ UNCHANGED <<nq, tr, pl, metricFamilies, columnTypes, NoPreparedStatement, IgnoreMissingVals,
                   qconn, qstmt, stmtOn, execLog, collects, call, ch, cursor, counters,
                   offers, cvars>>

\* What the source column of a lag calculation may hold: NULL, the empty
\* string, text no layout parses, an instant in the past, the present instant
\* and one in the future in either of two layouts, and values of the other kinds.
SourcePool ==
    {NullString(FALSE, <<>>), NullString(TRUE, <<>>), NullString(TRUE, <<"?">>),
     NullTime(FALSE, 0), NullTime(TRUE, Clock - 30), NullTime(TRUE, Clock),
     NullTime(TRUE, Clock + 5), NullFloat64(TRUE, 1)}
    \cup {NullString(TRUE, FormatTime(layout, t)) :
            layout \in {DefaultLayout, RFC3339Nano},
            t \in {Clock - 30, Clock, Clock + 5}}

\* The rows applyTransformations is called on: env alone, or env and the
\* source column, with or without a column named as a lag's output.
TransformRows ==
    LET base == MapSet(EmptyMap, "env", NullString(TRUE, PROD))
        withSource == {MapSet(base, "updated_at", v) : v \in SourcePool}
    IN  {base} \cup withSource
        \cup {MapSet(r, "lag_seconds", NullFloat64(TRUE, 7)) : r \in {base} \cup withSource}

LagPool ==
    {LagCalculation("updated_at", "lag_seconds", ""),
     LagCalculation("updated_at", "lag_seconds", RFC3339Nano),
     LagCalculation("gone", "lag_seconds", ""),
     LagCalculation("updated_at", "lag_rfc", RFC3339Nano)}

\* q.applyTransformations(row, metric)
CallApplyTransformations ==
    /\ NoCallYet
    /\ \E row \in TransformRows, lags \in SeqsUpTo(LagPool, MaxLags),
          colFilters \in {<<>>, <<"lag_seconds">>, <<"env", "lag_rfc">>} :
          LET metric == MetricConfig(lags, <<>>, <<"env">>, <<"lag_seconds">>, "", colFilters)
          IN  tr' = [pc |-> "done", row |-> row, metric |-> metric,
                     result |-> applyTransformations(row, metric, Clock)]
    /\ UNCHANGED <<nq, rf, pl, metricFamilies, columnTypes, NoPreparedStatement, IgnoreMissingVals,
                   qconn, qstmt, stmtOn, execLog, collects, call, ch, cursor, counters,
                   offers, cvars>>

\* The families the loop over q.metricFamilies may run through: with or
\* without a lag calculation that writes lag_seconds, with no filter, a filter
\* on a scanned column or a filter on lag_seconds, and with or without an
\* allowlist that keeps lag_seconds alone.
PipelinePool ==
    {MetricConfig(lags, filters, <<"env">>, <<"lag_seconds">>, "", colFilters) :
        lags \in {<<>>, <<LagCalculation("updated_at", "lag_seconds", "")>>},
        filters \in {<<>>, <<RowFilter("env", "equals", PROD, <<>>)>>,
                     <<RowFilter("lag_seconds", "not_equals", <<"7">>, <<>>)>>},
        colFilters \in {<<>>, <<"lag_seconds">>}}

\* The body of the row loop of Collect for one scanned row: every family's
\* filters and transformations, in turn, on the same row map.
CallPipeline ==
    /\ NoCallYet
    /\ \E row \in TransformRows, families \in SeqsUpTo(PipelinePool, MaxFamilies) :
          pl' = [pc |-> "done", row |-> row, families |-> families,
                 out |-> Pipeline(families, 1, row, 1, Clock)]
    /\ UNCHANGED <<nq, rf, tr, metricFamilies, columnTypes, NoPreparedStatement,
                   IgnoreMissingVals, qconn, qstmt, stmtOn, execLog, collects, call, ch,
                   cursor, counters, offers, cvars>>

\* One call of one of the functions, on any input.
InitFn ==
    /\ InitConn0
    /\ InitQuery(<<mfAll>>)
    /\ NoPreparedStatement = FALSE
    /\ IgnoreMissingVals = FALSE

NextFn ==
    \/ CallNewQuery
    \/ CallApplyRowFilter
    \/ CallApplyTransformations
    \/ CallPipeline

SpecFn == InitFn /\ [][NextFn]_vars

\* =================================================================== claims
\* The invocations that stopped at the check, at the execution or at the
\* column-shape stage, but for missing columns in ignore-missing-values mode.
FailedEarly(c) ==
    /\ call[c].pc = "returned"
    /\ call[c].fail \in {"ctx", "run", "prepare", "columns", "missing"}
    /\ ~(call[c].fail = "missing" /\ IgnoreMissingVals)

\* C1: a Collect that fails at the cancellation check, at query execution or
\* at the column-shape stage (other than by missing columns in
\* ignore-missing-values mode) has sent exactly one InvalidMetric, scanned no
\* row and invoked no metric family; one cancelled on entry never executed
\* the query.
C1_OneInvalidMetricOnEarlyFailure ==
    \A c \in Calls :
        /\ FailedEarly(c) =>
              /\ Len(ch[c]) = 1
              /\ ch[c][1].kind = "invalid"
              /\ cursor[c].pos = 0
              /\ counters[c].processed = 0
              /\ offers[c] = <<>>
        /\ call[c].entryCancelled => ~call[c].executed /\ call[c].pc = "returned"

\* Whether row i of the invocation's cursor fails to scan.
RowFails(c, i) ==
    ~scanRow(columnTypes, cursor[c].columns,
             cursor[c].rows[i].raw, cursor[c].rows[i].ioErr).ok

MsgsAbout(c, i) == {n \in DOMAIN ch[c] : ch[c][n].rowIdx = i}
OffersOf(c, i, k) == {n \in DOMAIN offers[c] : offers[c][n].row = i /\ offers[c][n].mf = k}

\* C2: of a cursor of n rows, any of which may fail to scan, every row is
\* iterated; a failing row gets exactly one InvalidMetric and no family; a row
\* that scans is offered to every family once, whatever failed before it.
C2_RowIsolation ==
    \A c \in Calls :
        /\ call[c].outcome = "done" =>
              /\ cursor[c].pos = Len(cursor[c].rows)
              /\ counters[c].processed = Len(cursor[c].rows)
        /\ call[c].pc \in {"next", "rowsErr"} \/ call[c].outcome = "done" =>
              \A i \in 1..cursor[c].pos :
                  IF RowFails(c, i)
                  THEN /\ Cardinality(MsgsAbout(c, i)) = 1
                       /\ \A n \in MsgsAbout(c, i) :
                             ch[c][n].kind = "invalid" /\ ch[c][n].err = "row"
                       /\ \A k \in DOMAIN metricFamilies : OffersOf(c, i, k) = {}
                  ELSE /\ \A k \in DOMAIN metricFamilies :
                             Cardinality(OffersOf(c, i, k)) = 1
                       /\ \A n \in MsgsAbout(c, i) : ch[c][n].kind = "sample"

\* C2 witness: a finished Collect whose first row failed to scan and whose
\* second row scanned and was delivered.
C2_Witness ==
    \E c \in Calls :
        /\ call[c].outcome = "done"
        /\ Len(cursor[c].rows) = 2
        /\ RowFails(c, 1)
        /\ ~RowFails(c, 2)
        /\ \E n \in DOMAIN ch[c] : ch[c][n].kind = "sample" /\ ch[c][n].rowIdx = 2

\* C3: once Collect has returned, a cursor that run handed to it is closed,
\* whichever way Collect returned.
C3_CursorClosedOnReturn ==
    \A c \in Calls :
        call[c].pc = "returned" /\ cursor[c].state # "none" => cursor[c].state = "closed"

\* C3 witness: Collect returned silently from the column-shape stage in
\* ignore-missing-values mode, and its cursor is closed.
C3_Witness ==
    \E c \in Calls :
        /\ call[c].outcome = "shapeSkipped"
        /\ call[c].executed
        /\ cursor[c].state = "closed"

\* What one row puts on the channel: its scan error, or a sample for each
\* family whose filters it passes, in the families' order.
RowMsgs(c, i) ==
    LET cr == cursor[c].rows[i]
        r == scanRow(columnTypes, cursor[c].columns, cr.raw, cr.ioErr)
        F[k \in 0..Len(metricFamilies)] ==
            IF k = 0 THEN <<>>
            ELSE F[k - 1] \o
                 (IF shouldIncludeRow(r.row, metricFamilies[k])
                  THEN <<Sample(k, i, applyTransformations(r.row, metricFamilies[k], Clock))>>
                  ELSE <<>>)
    IN  IF ~r.ok THEN <<InvalidMetric("row", {}, i)>> ELSE F[Len(metricFamilies)]

\* What the first n rows put on the channel.
RowsMsgs(c, n) ==
    LET G[i \in 0..n] == IF i = 0 THEN <<>> ELSE G[i - 1] \o RowMsgs(c, i)
    IN  G[n]

\* C4: a final cursor error adds exactly one InvalidMetric after everything
\* sent for the rows, and what was sent for the rows is what a cursor ending
\* without error after the same rows gets.
C4_FinalErrorIsAppended ==
    \A c \in Calls :
        call[c].outcome = "done" =>
            ch[c] = RowsMsgs(c, Len(cursor[c].rows))
                    \o (IF cursor[c].err THEN <<InvalidMetric("cursor", {}, 0)>> ELSE <<>>)

\* C4 witness: a Collect that ended with a final cursor error after it had
\* sent a sample and a row's scan error.
C4_Witness ==
    \E c \in Calls :
        /\ call[c].outcome = "done"
        /\ cursor[c].err
        /\ Len(ch[c]) >= 3
        /\ \E n \in DOMAIN ch[c] : ch[c][n].kind = "sample"
        /\ \E n \in DOMAIN ch[c] : ch[c][n].err = "row"
        /\ ch[c][Len(ch[c])].err = "cursor"

\* C5: in prepared-statement mode, once a statement is prepared the cached
\* statement and the bound handle are never assigned again, the handle is set
\* exactly when the statement is, and an invocation with another handle
\* panics in run: it prepares nothing, executes nothing and sends nothing.
C5_BoundOnceAndFatalOnMismatch ==
    /\ [](~NoPreparedStatement =>
            /\ (\A c \in Calls : call[c].pc # "setStmt") => ((qconn = "nil") <=> (qstmt = 0))
            /\ qstmt # 0 =>
                  /\ Len(stmtOn) = 1 /\ stmtOn[qstmt] = qconn
                  /\ \A e \in execLog : e.on = qconn /\ e.stmt = qstmt
                  /\ \A c \in Calls :
                        call[c].conn \notin {"nil", qconn} /\ ~call[c].entryCancelled =>
                            /\ call[c].pc \in {"run", "panicked"}
                            /\ ch[c] = <<>>
                            /\ ~call[c].executed
                            /\ call[c].stmt = 0)
    /\ [][~NoPreparedStatement /\ qstmt # 0 => qstmt' = qstmt /\ qconn' = qconn]_vars

\* C5 witness: a statement is cached and an invocation with the other handle
\* has panicked.
C5_Witness ==
    \E c \in Calls :
        /\ ~NoPreparedStatement
        /\ qstmt # 0
        /\ call[c].pc = "panicked"
        /\ call[c].conn # qconn

\* C6: overlapping invocations of a prepared-mode Query on one handle assign
\* the cached statement at most once: a second statement is never prepared
\* (to overwrite the first or be lost), and every execution is by the one
\* cached statement.
C6_StatementAssignedOnce ==
    (/\ ~NoPreparedStatement
     /\ Cardinality({call[c].conn : c \in Calls} \ {"nil"}) <= 1
     /\ Cardinality(Range(stmtOn)) <= 1)
    => /\ Len(stmtOn) <= 1
       /\ \A e \in execLog : e.stmt = 1

\* C7: when the context is cancelled before the goroutine has closed ch,
\* OpenConnection returns the cancellation error and no handle, and the
\* handle the goroutine made gets no pool limits.
C7_CancelledOpenReturnsNoHandle ==
    cancelFirst /\ ot.pc # "none" =>
        /\ oc.pc # "limits"
        /\ limits = {}
        /\ oc.pc = "returned" => oc.conn = "nil" /\ oc.err = CtxErr

\* C8: the goroutine of OpenConnection and the goroutine of PingDB end once
\* sql.Open and PingContext have returned, whichever branch the caller's
\* select took: closing ch and sending on the buffered ch never block.
C8_TasksTerminate ==
    /\ (ot.pc = "signal") ~> (ot.pc = "done")
    /\ (pt.pc = "send") ~> (pt.pc = "done")

\* C8 witness: PingDB returned on the cancellation, and its goroutine has
\* ended, its result left in the buffer.
C8_Witness ==
    /\ pg.pc = "returned"
    /\ pg.branch = "ctx"
    /\ pt.pc = "done"
    /\ pch.buf # <<>>

\* C9: PingDB returns the outcome of the event that came first: the ping's
\* result if the ping completed before the cancellation, the cancellation
\* error if the context was cancelled before the ping completed.
C9_FirstEventWins ==
    pg.pc = "returned" =>
        /\ first = "ping" => pg.branch = "ch" /\ pg.ret = pt.result
        /\ first = "cancel" => pg.ret = "ctxErr"

\* C10: when the descriptor does not parse, OpenConnection returns no handle,
\* starts no goroutine, and returns an error that is the same for a
\* descriptor that fails for the same reason with another password, and that
\* does not hold the descriptor.
C10_ParseErrorHidesSecret ==
    oc.pc = "returned" /\ ~safeParse(dsn).ok =>
        /\ oc.conn = "nil"
        /\ ot.pc = "none"
        /\ ~Contains(oc.err.quoted, dsn)
        /\ LET other == safeParse(twin)
           IN  ~other.ok /\ other.err.msg = oc.err.msg => other.err = oc.err

\* The roles the families ask for, as pairs of a column and a role: Key for
\* lag sources, filter columns and labels, Value for the value columns a lag
\* calculation of the family does not produce, Time for the timestamp column.
RolesAsked(families) ==
    UNION {LET mc == families[k]
               outputs == {mc.LagCalculations[i].OutputColumn : i \in DOMAIN mc.LagCalculations}
           IN  {<<mc.LagCalculations[i].SourceColumn, columnTypeKey>> :
                    i \in DOMAIN mc.LagCalculations}
               \cup {<<mc.RowFilters[i].Column, columnTypeKey>> : i \in DOMAIN mc.RowFilters}
               \cup {<<mc.KeyLabels[i], columnTypeKey>> : i \in DOMAIN mc.KeyLabels}
               \cup {<<mc.Values[i], columnTypeValue>> :
                        i \in {j \in DOMAIN mc.Values : mc.Values[j] \notin outputs}}
               \cup (IF mc.TimestampValue = "" THEN {}
                     ELSE {<<mc.TimestampValue, columnTypeTime>>})
           : k \in DOMAIN families}

\* The columns asked for with two different roles.
Conflicting(families) ==
    {p[1] : p \in {q \in RolesAsked(families) :
                      \E r \in RolesAsked(families) : r[1] = q[1] /\ r[2] # q[2]}}

\* C11: when the families ask for some column with two different roles, in
\* one family or across families, NewQuery returns an error that names such a
\* column and no Query; otherwise it succeeds and every column asked for maps
\* to its one role.
C11_RoleConflictIsAnError ==
    nq.pc = "done" =>
        IF Conflicting(nq.families) # {}
        THEN /\ ~nq.ok
             /\ nq.column \in Conflicting(nq.families)
             /\ nq.types = EmptyMap
        ELSE /\ nq.ok
             /\ DOMAIN nq.types = {p[1] : p \in RolesAsked(nq.families)}
             /\ \A c \in DOMAIN nq.types : <<c, nq.types[c]>> \in RolesAsked(nq.families)

\* C11 witness: NewQuery refused two families that agree each with itself
\* and ask for one column with different roles.
C11_Witness ==
    /\ nq.pc = "done"
    /\ ~nq.ok
    /\ Len(nq.families) = 2
    /\ \A k \in 1..2 : Conflicting(<<nq.families[k]>>) = {}
    /\ nq.column \in Conflicting(nq.families)

\* The columns some family derives by a lag calculation and that no family
\* names as a lag source, a filter column, a label or the timestamp column.
DerivedOnly(families) ==
    UNION {{mc.LagCalculations[i].OutputColumn : i \in DOMAIN mc.LagCalculations} :
             mc \in Range(families)}
    \ {p[1] : p \in {q \in RolesAsked(families) : q[2] # columnTypeValue}}

\* C17: after NewQuery succeeded, no column that a lag calculation of some
\* family produces, and that is otherwise a value column only (of that family
\* or of another), is in the column role map.
C17_DerivedColumnsNotRequired ==
    nq.pc = "done" /\ nq.ok =>
        \A c \in DerivedOnly(nq.families) : c \notin DOMAIN nq.types

\* The filter of the call with another operator.
WithOperator(op) == [rf.filter EXCEPT !.Operator = op]

\* Whether the row of the call holds the filter's column, with a value that
\* is not NULL.
FilterColumnValid ==
    rf.filter.Column \in DOMAIN rf.row /\ rf.row[rf.filter.Column].Valid

\* C15: on a row whose filter column is present and not NULL, exactly one of
\* in and not_in matches for the same value set, the empty one included, and
\* exactly one of equals and not_equals for the same value.
C15_InAndNotInAreComplements ==
    rf.pc = "done" /\ FilterColumnValid =>
        /\ rf.filter.Operator = "in" =>
              rf.matched # applyRowFilter(rf.row, WithOperator("not_in"))
        /\ rf.filter.Operator = "not_in" =>
              rf.matched # applyRowFilter(rf.row, WithOperator("in"))
        /\ rf.filter.Operator = "equals" =>
              rf.matched # applyRowFilter(rf.row, WithOperator("not_equals"))
        /\ rf.filter.Operator = "not_equals" =>
              rf.matched # applyRowFilter(rf.row, WithOperator("equals"))

\* C15 witness: not_in over two values matched a value that is neither, and
\* in over the empty set matched nothing.
C15_Witness ==
    /\ rf.pc = "done"
    /\ FilterColumnValid
    /\ \/ rf.filter.Operator = "not_in" /\ Len(rf.filter.Values) = 2 /\ rf.matched
       \/ rf.filter.Operator = "in" /\ rf.filter.Values = <<>> /\ ~rf.matched

\* C18: a filter whose column is absent from the row, or NULL in it, does
\* not match, whatever its operator.
C18_AbsentOrNullNeverMatches ==
    rf.pc = "done" /\ ~FilterColumnValid => ~rf.matched

\* C18 witness: a not_equals filter did not match a NULL string.
C18_Witness ==
    /\ rf.pc = "done"
    /\ rf.filter.Operator = "not_equals"
    /\ rf.filter.Column \in DOMAIN rf.row
    /\ rf.row[rf.filter.Column] = NullString(FALSE, <<>>)
    /\ ~rf.matched

KnownOperators == {"equals", "not_equals", "in", "not_in", "contains"}

\* Every filter column of the families is a column of the role map NewQuery built.
FilterColumnsRequired ==
    nq.pc = "done" /\ nq.ok =>
        \A k \in DOMAIN nq.families : \A i \in DOMAIN nq.families[k].RowFilters :
            nq.families[k].RowFilters[i].Column \in DOMAIN nq.types

\* C19 as stated: a filter with an operator that is none of the five matches
\* every row that holds its column, whatever the column's value; and the
\* column is one the role map requires.
C19_UnknownOperatorAlwaysMatches ==
    /\ FilterColumnsRequired
    /\ rf.pc = "done" /\ rf.filter.Operator \notin KnownOperators
          /\ rf.filter.Column \in DOMAIN rf.row
       => rf.matched

\* C19 amended: a filter with an operator that is none of the five matches
\* every row that holds its column with a value that is not NULL; and the
\* column is one the role map requires.
C19_UnknownOperatorMatchesValid ==
    /\ FilterColumnsRequired
    /\ rf.pc = "done" /\ rf.filter.Operator \notin KnownOperators /\ FilterColumnValid
       => rf.matched

\* C19 witness: a filter with a misspelt operator matched a row whose column
\* holds a string its value differs from.
C19_Witness ==
    /\ rf.pc = "done"
    /\ rf.filter.Operator = "matches"
    /\ FilterColumnValid
    /\ rf.row[rf.filter.Column] = NullString(TRUE, DEV)
    /\ rf.filter.Value = PROD
    /\ rf.matched

\* The lag calculations of the call that write the column o: those with that
\* output whose source column the row holds.  The last of them writes last.
Writers(o) ==
    {i \in DOMAIN tr.metric.LagCalculations :
        /\ tr.metric.LagCalculations[i].OutputColumn = o
        /\ tr.metric.LagCalculations[i].SourceColumn \in DOMAIN tr.row}
LastWriter(o) == CHOOSE i \in Writers(o) : \A j \in Writers(o) : j <= i

\* The instants the source of lag calculation i denotes: the time it holds, or
\* the one its string spells in the calculation's layout; none for a NULL, an
\* empty or unparseable string, or a number.
SourceInstants(i) ==
    LET lagCalc == tr.metric.LagCalculations[i]
        src == tr.row[lagCalc.SourceColumn]
        layout == IF lagCalc.TimestampFormat = "" THEN DefaultLayout
                  ELSE lagCalc.TimestampFormat
    IN  IF ~src.Valid THEN {}
        ELSE IF src.t = "NullTime" THEN {src.Time}
        ELSE IF src.t = "NullString"
        THEN {t \in Instants : FormatTime(layout, t) = src.String}
        ELSE {}

\* The columns of the result the family's column filters let through.
Kept(o) ==
    \/ tr.metric.ColumnFilters = <<>>
    \/ o \in Range(tr.metric.ColumnFilters)

\* C20: applyTransformations writes a lag calculation's output column exactly
\* when the row holds its source column; the entry is a float that is invalid
\* exactly when the lag is zero; a NULL, empty or unparseable source gives a
\* zero, invalid entry, and a source instant gives the seconds from it to
\* now, valid also when negative.
C20_LagOutputValidIffNonZero ==
    tr.pc = "done" =>
        \A i \in DOMAIN tr.metric.LagCalculations :
            LET o == tr.metric.LagCalculations[i].OutputColumn
            IN  Kept(o) =>
                  IF Writers(o) = {}
                  THEN /\ o \in DOMAIN tr.result <=> o \in DOMAIN tr.row
                       /\ o \in DOMAIN tr.row => tr.result[o] = tr.row[o]
                  ELSE /\ o \in DOMAIN tr.result
                       /\ tr.result[o].t = "NullFloat64"
                       /\ tr.result[o].Valid <=> tr.result[o].Float64 # 0
                       /\ SourceInstants(LastWriter(o)) = {} =>
                              tr.result[o] = NullFloat64(FALSE, 0)
                       /\ \A t \in SourceInstants(LastWriter(o)) :
                              tr.result[o].Float64 = Clock - t

\* C20 witness: a source timestamp in the future gave a negative lag in a
\* valid entry.
C20_Witness ==
    /\ tr.pc = "done"
    /\ "lag_seconds" \in DOMAIN tr.result
    /\ Writers("lag_seconds") # {}
    /\ tr.result["lag_seconds"].Valid
    /\ tr.result["lag_seconds"].Float64 < 0

\* The invocations whose column-shape check has read the cursor's columns.
ShapeChecked(c) ==
    /\ cursor[c].columns # <<>>
    /\ call[c].fail # "columns"

\* The columns of the role map the cursor does not return.
Absent(c) == DOMAIN columnTypes \ Range(cursor[c].columns)

\* C12: the column-shape check passes exactly when the cursor returns every
\* column of the role map, whatever else it returns; when it fails the error
\* names the absent columns and Collect sends one InvalidMetric, or, in
\* ignore-missing-values mode, sends nothing; either way it processes no row
\* and returns.
C12_ShapeCheckNamesMissingColumns ==
    \A c \in Calls :
        ShapeChecked(c) =>
            /\ call[c].fail = "missing" <=> Absent(c) # {}
            /\ call[c].fail = "missing" =>
                  /\ call[c].pc = "returned"
                  /\ cursor[c].pos = 0
                  /\ counters[c] = ZeroCounters
                  /\ offers[c] = <<>>
                  /\ ch[c] = IF IgnoreMissingVals THEN <<>>
                             ELSE <<InvalidMetric("missing", Absent(c), 0)>>

\* C12 witness: the check passed on a result set with an extra, an unnamed
\* and a repeated column, and rows were read.
C12_Witness ==
    \E c \in Calls :
        /\ ShapeChecked(c)
        /\ call[c].fail = ""
        /\ Len(cursor[c].columns) > Cardinality(Range(cursor[c].columns))
        /\ "" \in Range(cursor[c].columns)
        /\ cursor[c].pos > 0

\* The samples of a family that has no filter, no lag calculation and no
\* column allowlist: what it was handed is the Row as scanRow built it.
PlainSamples(c) ==
    {n \in DOMAIN ch[c] :
        /\ ch[c][n].kind = "sample"
        /\ metricFamilies[ch[c][n].mf] = mfAll}

\* C13: the Row of a scanned row has an entry for every column of the role
\* map, of the kind of the column's role, and the entry is invalid exactly
\* when the database value was NULL.
C13_NullIsPresentAndInvalid ==
    \A c \in Calls : \A n \in PlainSamples(c) :
        LET row == ch[c][n].data
            raw == cursor[c].rows[ch[c][n].rowIdx].raw
        IN  /\ DOMAIN row = DOMAIN columnTypes
            /\ \A col \in DOMAIN columnTypes :
                  /\ ~row[col].Valid <=> raw[col] = DbNull
                  /\ row[col].t = CASE columnTypes[col] = columnTypeKey -> "NullString"
                                    [] columnTypes[col] = columnTypeValue -> "NullFloat64"
                                    [] columnTypes[col] = columnTypeTime -> "NullTime"

\* C13 witness: a row of NULLs reached a family with an entry for each of
\* its columns, none valid, next to a row without a NULL, every entry valid.
C13_Witness ==
    \E c \in Calls : \E n, m \in PlainSamples(c) :
        /\ cursor[c].rows[ch[c][n].rowIdx].raw = NullRow
        /\ DOMAIN ch[c][n].data = DOMAIN columnTypes
        /\ \A col \in DOMAIN columnTypes : ~ch[c][n].data[col].Valid
        /\ cursor[c].rows[ch[c][m].rowIdx].raw = ProdRow
        /\ \A col \in DOMAIN columnTypes : ch[c][m].data[col].Valid

\* The Row scanRow built of row i of the invocation's cursor.
RowOf(c, i) ==
    scanRow(columnTypes, cursor[c].columns, cursor[c].rows[i].raw,
            cursor[c].rows[i].ioErr).row

\* The samples family k sent for row i.
Delivered(c, i, k) ==
    {n \in DOMAIN ch[c] :
        ch[c][n].kind = "sample" /\ ch[c][n].rowIdx = i /\ ch[c][n].mf = k}

\* C14: of every row that scanned, every family receives the transformed row,
\* once, exactly when the row matches each of the family's filters; what
\* another family's filters say of the row does not count.
C14_FamilyGetsRowIffAllFiltersMatch ==
    \A c \in Calls : \A i \in 1..cursor[c].pos :
        ~RowFails(c, i) =>
            LET row == RowOf(c, i)
            IN  \A k \in DOMAIN metricFamilies :
                    LET filters == metricFamilies[k].RowFilters
                        all == \A j \in DOMAIN filters : applyRowFilter(row, filters[j])
                        sent == Delivered(c, i, k)
                    IN  /\ Cardinality(sent) = IF all THEN 1 ELSE 0
                        /\ \A n \in sent :
                              ch[c][n].data = applyTransformations(row, metricFamilies[k], Clock)

\* C14 witness: a row that matched one of the two filters of the first family
\* and the only filter of the second was delivered to the second alone.
C14_Witness ==
    \E c \in Calls : \E i \in 1..cursor[c].pos :
        /\ metricFamilies = <<mfStrict, mfLag>>
        /\ ~RowFails(c, i)
        /\ applyRowFilter(RowOf(c, i), mfStrict.RowFilters[1])
        /\ ~applyRowFilter(RowOf(c, i), mfStrict.RowFilters[2])
        /\ Delivered(c, i, 1) = {}
        /\ Delivered(c, i, 2) # {}

\* C16: in either execution mode the Query is executed on one handle only,
\* the one of its first execution: no invocation that brings another handle
\* gets the query executed on it.
C16_ExecutedOnOneHandleOnly ==
    Cardinality({e.on : e \in execLog}) <= 1

\* The invocations that reached the iteration over the rows.
ReachedRows(c) == call[c].pc \in {"next", "rowsErr"} \/ call[c].outcome = "done"

\* The rows iterated so far that scanned.
Scanned(c) == {i \in 1..cursor[c].pos : ~RowFails(c, i)}

\* The (row, family) pairs the loop visited and delivered, or excluded.
Included(c) == {n \in DOMAIN offers[c] : offers[c][n].included}
Excluded(c) == {n \in DOMAIN offers[c] : ~offers[c][n].included}

\* C22: in every Collect that reaches the iteration over the rows, after every
\* row and at the end, rows_processed is the number of rows iterated, failed
\* scans included; metrics_generated is the number of deliveries to metric
\* families and rows_filtered the number of excluded (row, family) pairs, so
\* that together they count the scanned rows times the families, and an
\* excluded pair is never counted as generated.
C22_CountersAddUp ==
    \A c \in Calls :
        ReachedRows(c) =>
            /\ counters[c].processed = cursor[c].pos
            /\ counters[c].generated = Cardinality(Included(c))
            /\ counters[c].filtered = Cardinality(Excluded(c))
            /\ counters[c].generated + counters[c].filtered
                  = Cardinality(Scanned(c)) * Len(metricFamilies)
            /\ \A n \in Excluded(c) :
                  ~shouldIncludeRow(RowOf(c, offers[c][n].row), metricFamilies[offers[c][n].mf])
            /\ call[c].outcome = "done" => cursor[c].pos = Len(cursor[c].rows)

\* C22 witness: a Collect ended having iterated a row that failed to scan and
\* a row one family took and the other excluded.
C22_Witness ==
    \E c \in Calls :
        /\ call[c].outcome = "done"
        /\ counters[c].processed > Cardinality(Scanned(c))
        /\ counters[c].generated > 0
        /\ counters[c].filtered > 0

\* (a, b) before (c, d) in lexicographic order.
LexLess(a, b, c, d) == a < c \/ (a = c /\ b < d)

\* Where a message belongs: a sample at (row, family), a row's scan error at
\* (row, 0), the cursor's final error after the last row.
RowKey(c, m) == IF m.err = "cursor" THEN cursor[c].pos + 1 ELSE m.rowIdx

\* What the rows iterated, their scan outcomes, the families' filter outcomes
\* and the cursor's final state say must have been sent: the places of the
\* messages, and at each place the kind of the message.
Due(c) ==
    UNION {LET r == scanRow(columnTypes, cursor[c].columns, cursor[c].rows[i].raw,
                            cursor[c].rows[i].ioErr)
           IN  IF ~r.ok THEN {<<i, 0>>}
               ELSE {<<i, k>> : k \in {j \in DOMAIN metricFamilies :
                                         shouldIncludeRow(r.row, metricFamilies[j])}}
           : i \in 1..cursor[c].pos}
    \cup (IF call[c].outcome = "done" /\ cursor[c].err
          THEN {<<cursor[c].pos + 1, 0>>} ELSE {})

\* C21: in one Collect the families are evaluated, and the deliveries made, in
\* lexicographic order of (row position, declared position of the family),
\* and a row's scan error is sent at the row's place; the sequence of
\* deliveries and InvalidMetrics is the one sequence the rows, their scan and
\* filter outcomes and the cursor's end determine, so that two invocations
\* that agree on those send the same sequence.
C21_DeliveriesInRowThenFamilyOrder ==
    \A c \in Calls :
        ReachedRows(c) =>
            /\ \A n, m \in DOMAIN offers[c] :
                  n < m => LexLess(offers[c][n].row, offers[c][n].mf,
                                   offers[c][m].row, offers[c][m].mf)
            /\ \A n, m \in DOMAIN ch[c] :
                  n < m => LexLess(RowKey(c, ch[c][n]), ch[c][n].mf,
                                   RowKey(c, ch[c][m]), ch[c][m].mf)
            /\ {<<RowKey(c, ch[c][n]), ch[c][n].mf>> : n \in DOMAIN ch[c]} = Due(c)
            /\ \A n \in DOMAIN ch[c] :
                  ch[c][n].kind = IF ch[c][n].mf = 0 THEN "invalid" ELSE "sample"

\* C21 witness: a Collect of two families sent, in this order, a delivery to
\* each family for the first row, the scan error of the second row, and the
\* cursor's final error.
C21_Witness ==
    \E c \in Calls :
        /\ call[c].outcome = "done"
        /\ Len(ch[c]) = 4
        /\ ch[c][1].kind = "sample" /\ ch[c][1].rowIdx = 1 /\ ch[c][1].mf = 1
        /\ ch[c][2].kind = "sample" /\ ch[c][2].rowIdx = 1 /\ ch[c][2].mf = 2
        /\ ch[c][3].err = "row" /\ ch[c][3].rowIdx = 2
        /\ ch[c][4].err = "cursor"

\* The deliveries the loop made to family k.
SentTo(k) == {n \in DOMAIN pl.out.msgs : pl.out.msgs[n].mf = k}

\* The families before family k that the row was delivered to.
DeliveredBefore(k) == {j \in 1..(k - 1) : SentTo(j) # {}}

\* C23: applyTransformations leaves the row it is given as it was: whatever
\* the families evaluated earlier on the row added as lag outputs or dropped
\* by their allowlists, every family's filters are tested on the row as
\* scanned and its delivery is the transformation of the row as scanned.
C23_TransformationsLeaveRowAlone ==
    pl.pc = "done" =>
        \A k \in DOMAIN pl.families :
            /\ SentTo(k) # {} <=> shouldIncludeRow(pl.row, pl.families[k])
            /\ \A n \in SentTo(k) :
                  pl.out.msgs[n].data = applyTransformations(pl.row, pl.families[k], Clock)
            /\ \A n \in SentTo(k) :
                  pl.families[k].LagCalculations = <<>> /\ pl.families[k].ColumnFilters = <<>>
                      => pl.out.msgs[n].data = pl.row

\* C23 witness: the first family was delivered the row with lag_seconds
\* computed and everything else dropped; the second, which filters on env and
\* transforms nothing, was delivered the row as scanned, env in it and
\* lag_seconds not.
C23_Witness ==
    /\ pl.pc = "done"
    /\ Len(pl.families) >= 2
    /\ "lag_seconds" \notin DOMAIN pl.row
    /\ \E n \in SentTo(1) : DOMAIN pl.out.msgs[n].data = {"lag_seconds"}
    /\ pl.families[2].RowFilters = <<RowFilter("env", "equals", PROD, <<>>)>>
    /\ pl.families[2].LagCalculations = <<>>
    /\ \E n \in SentTo(2) : pl.out.msgs[n].data = pl.row

====
